---- MODULE Spec2Model ----
(***************************************************************************)
(* StackOverflowCollector (src/data_collection/stackoverflow_collector.py) *)
(* as a state machine.  One method of the collector is called on a freshly *)
(* constructed object; the call runs step by step down to the HTTP layer   *)
(* (_request), whose server side is a nondeterministic choice of           *)
(* responses.  `trace` records every time.sleep and every session.get in   *)
(* the order the code performs them.                                       *)
(*                                                                         *)
(* Encoding of Python values:                                              *)
(*   None / absent key  -> 0 for identifiers and numbers, "" for strings   *)
(*   Optional[answer]   -> <<>> (None) or <<ans>>                          *)
(*   dict[int, V]       -> a function whose DOMAIN is the set of keys      *)
(*   API item           -> record [question_id, answer_id,                 *)
(*                         accepted_answer_id, is_accepted]                *)
(***************************************************************************)
EXTENDS Integers, Sequences, FiniteSets, TLC

\* ---------------------------------------------------------------- bounds
MaxPages == 2
MaxBackoff == 1
MaxIds == 201
MaxValuesLen == 5
MaxAnswers == 3
MaxId == 3

\* ------------------------------------------------------- program constants
MAX_IDS_PER_REQUEST == 100
MAX_RETRIES == 3
min_request_delay_ms == 200

SEARCH_ADVANCED_ENDPOINT == "/search/advacned"
QUESTIONS_BY_IDS_ENDPOINT == "/questions/{ids}"
ANSWERS_FOR_QUESTIONS_ENDPOINT == "/questions/{ids}/answers"

\* __init__ takes print_quota but never stores it: the attribute does not exist.
HasPrintQuotaAttr == FALSE

Min(a, b) == IF a < b THEN a ELSE b

\* --------------------------------------------------------------- API data
Item(qid, aid, acc, flag) ==
  [question_id |-> qid, answer_id |-> aid, accepted_answer_id |-> acc, is_accepted |-> flag]

\* {} : the empty dict
EmptyDict ==
  [has_error_name |-> FALSE, error_name |-> "", backoff |-> 0,
   items |-> <<>>, has_more |-> FALSE]

\* Item lists a server may put in a page, by endpoint.
ServerItems(ep) ==
  IF ep = SEARCH_ADVANCED_ENDPOINT
    THEN { <<>>,
           <<Item(2, 0, 0, FALSE), Item(2, 0, 0, FALSE), Item(1, 0, 0, FALSE)>>,
           <<Item(2, 0, 0, FALSE), Item(0, 0, 0, FALSE), Item(3, 0, 0, FALSE)>> }
  ELSE IF ep = QUESTIONS_BY_IDS_ENDPOINT
    THEN { <<>>,
           <<Item(1, 0, 2, FALSE), Item(2, 0, 0, FALSE)>>,
           <<Item(3, 0, 1, FALSE)>> }
  ELSE { <<>>,
         <<Item(1, 1, 0, FALSE), Item(1, 2, 0, TRUE)>>,
         <<Item(3, 3, 0, FALSE), Item(1, 2, 0, TRUE)>> }

\* What one session.get / raise_for_status / resp.json() can produce.
ServerResponses(ep) ==
  { [kind |-> k, has_error_name |-> FALSE, error_name |-> "", backoff |-> 0,
     items |-> <<>>, has_more |-> FALSE] : k \in {"transport", "malformed"} }
  \cup
  { [kind |-> "json", has_error_name |-> TRUE, error_name |-> e, backoff |-> 0,
     items |-> <<>>, has_more |-> FALSE] : e \in {"throttle_violation", "bad_parameter"} }
  \cup
  { [kind |-> "json", has_error_name |-> FALSE, error_name |-> "", backoff |-> b,
     items |-> it, has_more |-> hm] :
       b \in 0..MaxBackoff, it \in ServerItems(ep), hm \in BOOLEAN }

\* resp.json(): the parsed dict of a response
Payload(r) ==
  [has_error_name |-> r.has_error_name, error_name |-> r.error_name,
   backoff |-> r.backoff, items |-> r.items, has_more |-> r.has_more]

NoResponse ==
  [kind |-> "none", has_error_name |-> FALSE, error_name |-> "", backoff |-> 0,
   items |-> <<>>, has_more |-> FALSE]

\* a local name that has not been assigned
Unbound == [path |-> "", ids |-> <<>>]

\* {} as a dict[int, ...]
EmptyMap == [k \in {} |-> <<>>]

\* ------------------------------------------------------------------ trace
\* time.sleep(ms / 1000)
SleepEv(why, ms) ==
  [ev |-> "sleep", what |-> why, n |-> ms, arg |-> 0, first |-> 0, cnt |-> 0]
\* session.get(url, params): the path, the attempt number, params["page"] (0: no
\* such key), and the first of the IDs joined into the URL (0: none) with their number
GetEv(ep, att, pg) ==
  [ev |-> "get", what |-> ep.path, n |-> att, arg |-> pg,
   first |-> IF ep.ids = <<>> THEN 0 ELSE ep.ids[1], cnt |-> Len(ep.ids)]

\* ------------------------------------------------------------ pure helpers
\* lines 341-349: _dedupe_preserve_order, the loop from position k on
RECURSIVE DedupeFrom(_, _, _, _)
DedupeFrom(vals, k, seen, out) ==
  IF k > Len(vals) THEN out
  ELSE IF vals[k] \notin seen
    THEN DedupeFrom(vals, k + 1, seen \cup {vals[k]}, Append(out, vals[k]))
    ELSE DedupeFrom(vals, k + 1, seen, out)

dedupe_preserve_order(vals) == DedupeFrom(vals, 1, {}, <<>>)

\* mutant of ChunkAt: the slice runs one element too far
ChunkAt_Overlong(vals, size, start) ==
  SubSeq(vals, start + 1, Min(start + size + 1, Len(vals)))

\* line 354: values[i : i + size]   (i is 0-based, the slice is clipped to the list)
ChunkAt(vals, size, start) == SubSeq(vals, start + 1, Min(start + size, Len(vals)))

\* lines 351-354: list(_chunks(values, size))
RECURSIVE ChunksFrom(_, _, _)
ChunksFrom(vals, size, start) ==
  IF start >= Len(vals) THEN <<>>
  ELSE <<ChunkAt(vals, size, start)>> \o ChunksFrom(vals, size, start + size)

chunks(vals, size) == ChunksFrom(vals, size, 0)

\* lines 174-177: the question_id of every item that has one, in order
RECURSIVE QuestionIdsOf(_)
QuestionIdsOf(items) ==
  IF items = <<>> THEN <<>>
  ELSE (IF Head(items).question_id # 0 THEN <<Head(items).question_id>> ELSE <<>>)
       \o QuestionIdsOf(Tail(items))

\* lines 192-194: questions_by_id[qid] = q for every item, later items overwriting
RECURSIVE PutQuestions(_, _)
PutQuestions(m, items) ==
  IF items = <<>> THEN m
  ELSE LET q == Head(items)
           k == q.question_id
       IN PutQuestions([x \in DOMAIN m \cup {k} |-> IF x = k THEN q ELSE m[x]], Tail(items))

\* lines 211-213: answers_by_qid.setdefault(qid, []).append(ans) for every item
RECURSIVE AppendAnswers(_, _)
AppendAnswers(m, items) ==
  IF items = <<>> THEN m
  ELSE LET a == Head(items)
           k == a.question_id
       IN AppendAnswers([x \in DOMAIN m \cup {k} |->
                           IF x = k THEN (IF k \in DOMAIN m THEN Append(m[k], a) ELSE <<a>>)
                           ELSE m[x]],
                        Tail(items))

\* q["question_id"] on an item without that key raises KeyError
MissingQuestionId(items) == \E k \in 1..Len(items) : items[k].question_id = 0

\* the lists of distinct IDs handed to the fetch methods: 1, 2, ..., n
IdList(n) == [k \in 1..n |-> k]

\* lines 225-227: the first answer with is_accepted True, as a list of at most one
FirstFlagged(anss) ==
  LET hits == {k \in 1..Len(anss) : anss[k].is_accepted}
  IN IF hits = {} THEN <<>>
     ELSE <<anss[CHOOSE k \in hits : \A h \in hits : k <= h]>>

\* lines 229-231: the first answer whose answer_id equals accepted_id
FirstWithId(anss, accepted_id) ==
  LET hits == {k \in 1..Len(anss) : anss[k].answer_id = accepted_id}
  IN IF hits = {} THEN <<>>
     ELSE <<anss[CHOOSE k \in hits : \A h \in hits : k <= h]>>

\* mutant of find_accepted_answer: the ID match is tried before the is_accepted flag
find_accepted_answer_IdFirst(q, anss) ==
  IF q.accepted_answer_id = 0 THEN <<>>
  ELSE IF FirstWithId(anss, q.accepted_answer_id) # <<>>
    THEN FirstWithId(anss, q.accepted_answer_id)
  ELSE FirstFlagged(anss)

\* mutant of find_accepted_answer: the accepted_answer_id guard is missing
find_accepted_answer_NoGuard(q, anss) ==
  IF FirstFlagged(anss) # <<>> THEN FirstFlagged(anss)
  ELSE FirstWithId(anss, q.accepted_answer_id)

\* lines 217-233: _find_accepted_answer (<<>> is None)
find_accepted_answer(q, anss) ==
  IF q.accepted_answer_id = 0 THEN <<>>
  ELSE IF FirstFlagged(anss) # <<>> THEN FirstFlagged(anss)
  ELSE FirstWithId(anss, q.accepted_answer_id)

\* ------------------------------------------------------ inputs of the helpers
\* value lists of up to MaxValuesLen IDs out of 1..MaxId
RECURSIVE SeqsUpTo(_, _)
SeqsUpTo(S, n) ==
  IF n = 0 THEN {<<>>}
  ELSE LET shorter == SeqsUpTo(S, n - 1)
       IN shorter \cup {Append(t, x) : t \in {u \in shorter : Len(u) = n - 1}, x \in S}

\* a list of n IDs that repeats with period m
PeriodicList(n, m) == [k \in 1..n |-> ((k - 1) % m) + 1]

\* answers of question 1: every answer_id and flag
AnswerItems == {Item(1, aid, 0, flag) : aid \in 1..MaxId, flag \in BOOLEAN}

VARIABLES
  min_request_delay,  \* self.min_request_delay_sec as configured at construction, in ms
  op,          \* the method called on the collector ("idle" before the call)
  pc,          \* position inside the running call
  outcome,     \* "none" | "running" | "returned" | "raised"   (of the called method)
  error,       \* the exception that left the called method, "" if none
  max_pages, page, ids,            \* _search_question_ids
  question_ids, i, batch,          \* _fetch_*: input, range index of _chunks, current chunk
  endpoint,                        \* [path, ids]: the endpoint argument of _request ("" path: unbound)
  attempt, resp, parsed, exc,      \* _request: loop variable, HTTP response, its local `data`, caught exception
  data,                            \* the caller's `data`: what _request returned
  questions_by_id, answers_by_qid, \* the mappings the fetch methods build
  trace,                           \* time.sleep and session.get calls, in order
  served,                          \* history: [path, items] of every GET answered with an error-free payload
  values, question, answers,       \* arguments of _dedupe_preserve_order / _chunks / _find_accepted_answer
  ret                              \* the value a list- or Optional-returning method returned

callVars == <<op, outcome, error>>
searchVars == <<max_pages, page, ids>>
fetchVars == <<question_ids, i, batch, questions_by_id, answers_by_qid>>
reqVars == <<attempt, resp, parsed, exc>>
helperVars == <<values, question, answers>>

vars == <<min_request_delay, op, pc, outcome, error, max_pages, page, ids, question_ids, i, batch,
          endpoint, attempt, resp, parsed, exc, data, questions_by_id, answers_by_qid,
          trace, served, values, question, answers, ret>>

Init ==
  /\ min_request_delay \in {0, min_request_delay_ms, 3000}
  /\ op = "idle" /\ pc = "idle" /\ outcome = "none" /\ error = ""
  /\ max_pages = 0 /\ page = 0 /\ ids = <<>>
  /\ question_ids = <<>> /\ i = 0 /\ batch = <<>>
  /\ endpoint = Unbound
  /\ attempt = 0 /\ resp = NoResponse /\ parsed = EmptyDict /\ exc = "" /\ data = EmptyDict
  /\ questions_by_id = EmptyMap /\ answers_by_qid = EmptyMap
  /\ trace = <<>> /\ served = <<>>
  /\ values = <<>> /\ question = Item(0, 0, 0, FALSE) /\ answers = <<>> /\ ret = <<>>

\* An exception leaves the called method: nothing above _request catches anything.
Raise(e) ==
  /\ outcome' = "raised" /\ error' = e /\ pc' = "done"

\* ------------------------------------------------------------ _request
\* line 257: except (requests.RequestException, ValueError)
Caught(e) == e \in {"RequestException", "ValueError"}

\* What session.get / raise_for_status / resp.json() raise for a response kind.
TransportRaises(kind) ==
  IF kind = "transport" THEN "RequestException" ELSE "ValueError"

\* mutant of ApiErrorRaises: every API error raised as the retryable RequestException
ApiErrorRaises_AllRetryable(name) == "RequestException"

\* _raise_if_api_error: the exception raised for a payload carrying error_name.
\* RunTimeError is not a name Python knows: evaluating it raises NameError.
ApiErrorRaises(name) ==
  IF name = "throttle_violation" THEN "RequestException" ELSE "NameError"

\* mutant of MinDelaySleep: the configured delay is ignored for the default
MinDelaySleep_Default(d) == SleepEv("min_request_delay", min_request_delay_ms)

\* line 240: time.sleep(self.min_request_delay_sec)
MinDelaySleep(d) == SleepEv("min_request_delay", d)

\* lines 236-242: url, full_params, time.sleep(self.min_request_delay_sec), loop entry
RequestBegin ==
  /\ pc = "req_begin"
  /\ trace' = Append(trace, MinDelaySleep(min_request_delay))
  /\ attempt' = 1
  /\ pc' = "req_get"
  /\ UNCHANGED <<callVars, searchVars, fetchVars, helperVars, served, endpoint, resp, parsed, exc,
                 data, ret>>
  /\ UNCHANGED min_request_delay

\* lines 244-246: session.get, raise_for_status, resp.json()
HttpGet ==
  /\ pc = "req_get"
  /\ \E r \in ServerResponses(endpoint.path) :
       /\ resp' = r
       /\ trace' = Append(trace, GetEv(endpoint, attempt, page))
       /\ IF r.kind = "json"
            THEN /\ parsed' = Payload(r) /\ exc' = exc /\ pc' = "req_api_error"
            ELSE /\ parsed' = parsed /\ exc' = TransportRaises(r.kind) /\ pc' = "req_except"
       /\ served' = IF r.kind = "json" /\ ~r.has_error_name
                      THEN Append(served, [path |-> endpoint.path, items |-> r.items])
                      ELSE served
  /\ UNCHANGED <<callVars, searchVars, fetchVars, helperVars, endpoint, attempt, data, ret>>
  /\ UNCHANGED min_request_delay

\* line 248 and lines 270-282: _raise_if_api_error(data, attempt)
RaiseIfApiError ==
  /\ pc = "req_api_error"
  /\ IF ~parsed.has_error_name
       THEN /\ pc' = "req_backoff"
            /\ UNCHANGED <<callVars, exc, trace>>
       ELSE LET e == ApiErrorRaises(parsed.error_name) IN
            /\ trace' = IF parsed.error_name = "throttle_violation"
                           THEN Append(trace, SleepEv("throttle", 10 * attempt * 1000))
                           ELSE trace
            /\ IF Caught(e)
                 THEN /\ exc' = e /\ pc' = "req_except" /\ UNCHANGED callVars
                 ELSE /\ Raise(e) /\ UNCHANGED <<op, exc>>
  /\ UNCHANGED <<searchVars, fetchVars, helperVars, served, endpoint, attempt, resp, parsed, data, ret>>
  /\ UNCHANGED min_request_delay

\* mutant of BackoffSleeps: the backoff hint is not honoured
BackoffSleeps_None(d) == <<>>

\* lines 288-290: backoff = data.get("backoff"); if backoff: time.sleep(int(backoff))
BackoffSleeps(d) ==
  IF d.backoff # 0 THEN <<SleepEv("backoff", d.backoff * 1000)>> ELSE <<>>

\* line 250 and lines 284-290: _sleep_if_backoff_requested(data)
SleepIfBackoffRequested ==
  /\ pc = "req_backoff"
  /\ trace' = trace \o BackoffSleeps(parsed)
  /\ pc' = "req_quota"
  /\ UNCHANGED <<callVars, searchVars, fetchVars, helperVars, served, endpoint, reqVars, data, ret>>
  /\ UNCHANGED min_request_delay

\* lines 252-255: if self.print_quota: ...; return data
PrintQuotaAndReturn ==
  /\ pc = "req_quota"
  /\ IF HasPrintQuotaAttr
       THEN /\ data' = parsed /\ pc' = "req_returned" /\ UNCHANGED callVars
       ELSE /\ Raise("AttributeError") /\ UNCHANGED <<op, data>>
  /\ UNCHANGED <<searchVars, fetchVars, helperVars, served, endpoint, reqVars, trace, ret>>
  /\ UNCHANGED min_request_delay

\* lines 257-260: the except clause
Except ==
  /\ pc = "req_except"
  /\ IF attempt = MAX_RETRIES
       THEN /\ Raise(exc) /\ UNCHANGED <<op, trace>>
       ELSE /\ trace' = Append(trace, SleepEv("retry", 2 * attempt * 1000))
            /\ pc' = "req_after_try"
            /\ UNCHANGED callVars
  /\ UNCHANGED <<searchVars, fetchVars, helperVars, served, endpoint, reqVars, data, ret>>
  /\ UNCHANGED min_request_delay

\* mutant of ReturnEmptyDict: the failed attempt is repeated with the same attempt number
ReturnEmptyDict_RetrySameAttempt ==
  /\ pc = "req_after_try"
  /\ pc' = "req_get"
  /\ UNCHANGED <<callVars, searchVars, fetchVars, helperVars, served, endpoint, reqVars, data,
                 trace, ret>>
  /\ UNCHANGED min_request_delay

\* line 262: `return {}`, the last statement of the for body
ReturnEmptyDict ==
  /\ pc = "req_after_try"
  /\ data' = EmptyDict
  /\ pc' = "req_returned"
  /\ UNCHANGED <<callVars, searchVars, fetchVars, helperVars, served, endpoint, reqVars, trace, ret>>
  /\ UNCHANGED min_request_delay

\* A direct call collector._request(endpoint, params)
CallRequest ==
  /\ op = "idle"
  /\ \E p \in {SEARCH_ADVANCED_ENDPOINT, QUESTIONS_BY_IDS_ENDPOINT,
                ANSWERS_FOR_QUESTIONS_ENDPOINT} :
       endpoint' = [path |-> p, ids |-> <<>>]
  /\ op' = "_request" /\ outcome' = "running" /\ pc' = "req_begin"
  /\ UNCHANGED <<error, searchVars, fetchVars, helperVars, served, reqVars, data, trace, ret>>
  /\ UNCHANGED min_request_delay

RequestDone ==
  /\ op = "_request" /\ pc = "req_returned"
  /\ outcome' = "returned" /\ pc' = "done"
  /\ UNCHANGED <<op, error, searchVars, fetchVars, helperVars, served, endpoint, reqVars, data,
                 trace, ret>>
  /\ UNCHANGED min_request_delay

\* ------------------------------------------------- _search_question_ids
\* lines 142-168: params, ids = []
CallSearch ==
  /\ op = "idle"
  /\ \E mp \in 0..MaxPages : max_pages' = mp
  /\ op' = "_search_question_ids" /\ outcome' = "running" /\ pc' = "search_loop"
  /\ page' = 0 /\ ids' = <<>>
  /\ UNCHANGED <<error, fetchVars, helperVars, served, endpoint, reqVars, data, trace, ret>>
  /\ UNCHANGED min_request_delay

\* lines 170-172: for page in range(1, max_pages + 1): params["page"] = page; _request(...)
SearchNextPage ==
  /\ op = "_search_question_ids" /\ pc = "search_loop"
  /\ IF page + 1 <= max_pages
       THEN /\ page' = page + 1
            /\ endpoint' = [path |-> SEARCH_ADVANCED_ENDPOINT, ids |-> <<>>]
            /\ pc' = "req_begin"
       ELSE /\ pc' = "search_return"
            /\ UNCHANGED <<page, endpoint>>
  /\ UNCHANGED <<callVars, max_pages, ids, fetchVars, helperVars, served, reqVars, data, trace, ret>>
  /\ UNCHANGED min_request_delay

\* mutant of HasMore: the loop never breaks
HasMore_Always(d) == TRUE

\* line 179: data.get("has_more", False)
HasMore(d) == d.has_more

\* lines 174-180: collect the page's question IDs; stop unless has_more
SearchPage ==
  /\ op = "_search_question_ids" /\ pc = "req_returned"
  /\ ids' = ids \o QuestionIdsOf(data.items)
  /\ pc' = IF ~HasMore(data) THEN "search_return" ELSE "search_loop"
  /\ UNCHANGED <<callVars, max_pages, page, fetchVars, helperVars, served, endpoint, reqVars, data,
                 trace, ret>>
  /\ UNCHANGED min_request_delay

\* line 182: return self._dedupe_preserve_order(ids)
SearchReturn ==
  /\ op = "_search_question_ids" /\ pc = "search_return"
  /\ ret' = dedupe_preserve_order(ids)
  /\ outcome' = "returned" /\ pc' = "done"
  /\ UNCHANGED <<op, error, searchVars, fetchVars, helperVars, served, endpoint, reqVars, data, trace>>
  /\ UNCHANGED min_request_delay

\* ------------------------------------------------ _fetch_questions_by_ids
\* lines 184-185
CallFetchQuestions ==
  /\ op = "idle"
  /\ \E n \in 0..MaxIds : question_ids' = IdList(n)
  /\ op' = "_fetch_questions_by_ids" /\ outcome' = "running" /\ pc' = "fq_loop"
  /\ i' = 0 /\ batch' = <<>> /\ questions_by_id' = EmptyMap
  /\ UNCHANGED <<error, searchVars, helperVars, served, answers_by_qid, endpoint, reqVars, data,
                 trace, ret>>
  /\ UNCHANGED min_request_delay

\* lines 187-191: next batch of _chunks, endpoint with the joined IDs, _request(...)
FetchQuestionsNextBatch ==
  /\ op = "_fetch_questions_by_ids" /\ pc = "fq_loop"
  /\ IF i < Len(question_ids)
       THEN /\ batch' = ChunkAt(question_ids, MAX_IDS_PER_REQUEST, i)
            /\ i' = i + MAX_IDS_PER_REQUEST
            /\ endpoint' = [path |-> QUESTIONS_BY_IDS_ENDPOINT, ids |-> batch']
            /\ pc' = "req_begin"
            /\ UNCHANGED <<outcome>>
       ELSE \* line 196: return questions_by_id
            /\ outcome' = "returned" /\ pc' = "done"
            /\ UNCHANGED <<batch, i, endpoint>>
  /\ UNCHANGED <<op, error, searchVars, helperVars, served, question_ids, questions_by_id,
                 answers_by_qid, reqVars, data, trace, ret>>
  /\ UNCHANGED min_request_delay

\* lines 192-194: merge the batch's items into questions_by_id
FetchQuestionsItems ==
  /\ op = "_fetch_questions_by_ids" /\ pc = "req_returned"
  /\ IF MissingQuestionId(data.items)
       THEN /\ Raise("KeyError") /\ UNCHANGED <<op, questions_by_id>>
       ELSE /\ questions_by_id' = PutQuestions(questions_by_id, data.items)
            /\ pc' = "fq_loop"
            /\ UNCHANGED callVars
  /\ UNCHANGED <<searchVars, helperVars, served, question_ids, i, batch, answers_by_qid, endpoint,
                 reqVars, data, trace, ret>>
  /\ UNCHANGED min_request_delay

\* -------------------------------------------- _fetch_answers_for_questions
\* lines 198-199
CallFetchAnswers ==
  /\ op = "idle"
  /\ \E n \in 0..MaxIds : question_ids' = IdList(n)
  /\ op' = "_fetch_answers_for_questions" /\ outcome' = "running" /\ pc' = "fa_loop"
  /\ i' = 0 /\ batch' = <<>> /\ answers_by_qid' = EmptyMap /\ endpoint' = Unbound
  /\ UNCHANGED <<error, searchVars, helperVars, served, questions_by_id, reqVars, data, trace, ret>>
  /\ UNCHANGED min_request_delay

\* lines 201-208: the for body only builds endpoint and params
FetchAnswersNextBatch ==
  /\ op = "_fetch_answers_for_questions" /\ pc = "fa_loop"
  /\ i < Len(question_ids)
  /\ batch' = ChunkAt(question_ids, MAX_IDS_PER_REQUEST, i)
  /\ i' = i + MAX_IDS_PER_REQUEST
  /\ endpoint' = [path |-> ANSWERS_FOR_QUESTIONS_ENDPOINT, ids |-> batch']
  /\ UNCHANGED <<callVars, pc, searchVars, helperVars, served, question_ids, questions_by_id,
                 answers_by_qid, reqVars, data, trace, ret>>
  /\ UNCHANGED min_request_delay

\* line 210, after the loop: data = self._request(endpoint, params)
FetchAnswersRequest ==
  /\ op = "_fetch_answers_for_questions" /\ pc = "fa_loop"
  /\ i >= Len(question_ids)
  /\ IF endpoint = Unbound
       THEN /\ Raise("UnboundLocalError") /\ UNCHANGED op
       ELSE /\ pc' = "req_begin" /\ UNCHANGED callVars
  /\ UNCHANGED <<searchVars, fetchVars, helperVars, served, endpoint, reqVars, data, trace, ret>>
  /\ UNCHANGED min_request_delay

\* lines 211-215: group the items by question_id; return answers_by_qid
FetchAnswersItems ==
  /\ op = "_fetch_answers_for_questions" /\ pc = "req_returned"
  /\ IF MissingQuestionId(data.items)
       THEN /\ Raise("KeyError") /\ UNCHANGED <<op, answers_by_qid>>
       ELSE /\ answers_by_qid' = AppendAnswers(answers_by_qid, data.items)
            /\ outcome' = "returned" /\ pc' = "done"
            /\ UNCHANGED <<op, error>>
  /\ UNCHANGED <<searchVars, helperVars, served, question_ids, i, batch, questions_by_id, endpoint,
                 reqVars, data, trace, ret>>
  /\ UNCHANGED min_request_delay

\* ---------------------------------------------------------- get_questions
\* lines 72-79: the call passes the keyword min_aswers, which _search_question_ids
\* does not take: TypeError before anything is requested
CallGetQuestions ==
  /\ op = "idle"
  /\ op' = "get_questions"
  /\ Raise("TypeError")
  /\ UNCHANGED <<searchVars, fetchVars, helperVars, served, endpoint, reqVars, data, trace, ret>>
  /\ UNCHANGED min_request_delay

\* ------------------------------------------------- the static helpers
\* lines 341-349, called directly
CallDedupe ==
  /\ op = "idle"
  /\ \E v \in SeqsUpTo(1..MaxId, MaxValuesLen) : values' = v
  /\ op' = "_dedupe_preserve_order" /\ outcome' = "running" /\ pc' = "dedupe"
  /\ UNCHANGED <<error, searchVars, fetchVars, question, answers, served, endpoint, reqVars,
                 data, trace, ret>>
  /\ UNCHANGED min_request_delay

DedupeReturn ==
  /\ op = "_dedupe_preserve_order" /\ pc = "dedupe"
  /\ ret' = dedupe_preserve_order(values)
  /\ outcome' = "returned" /\ pc' = "done"
  /\ UNCHANGED <<op, error, searchVars, fetchVars, helperVars, served, endpoint, reqVars,
                 data, trace>>
  /\ UNCHANGED min_request_delay

\* lines 351-354: the generator _chunks(values, MAX_IDS_PER_REQUEST), consumed to its end
CallChunks ==
  /\ op = "idle"
  /\ \E n \in 0..MaxIds, m \in {1, 7, MaxIds + 1} : values' = PeriodicList(n, m)
  /\ op' = "_chunks" /\ outcome' = "running" /\ pc' = "chunks_loop"
  /\ i' = 0 /\ ret' = <<>>
  /\ UNCHANGED <<error, searchVars, question_ids, batch, questions_by_id, answers_by_qid,
                 question, answers, served, endpoint, reqVars, data, trace>>
  /\ UNCHANGED min_request_delay

\* line 353-354: for i in range(0, len(values), size): yield values[i : i + size]
ChunksYield ==
  /\ op = "_chunks" /\ pc = "chunks_loop"
  /\ IF i < Len(values)
       THEN /\ ret' = Append(ret, ChunkAt(values, MAX_IDS_PER_REQUEST, i))
            /\ i' = i + MAX_IDS_PER_REQUEST
            /\ UNCHANGED <<outcome, pc>>
       ELSE /\ outcome' = "returned" /\ pc' = "done"
            /\ UNCHANGED <<ret, i>>
  /\ UNCHANGED <<op, error, searchVars, question_ids, batch, questions_by_id, answers_by_qid,
                 helperVars, served, endpoint, reqVars, data, trace>>
  /\ UNCHANGED min_request_delay

\* lines 217-233, called directly
CallFindAcceptedAnswer ==
  /\ op = "idle"
  /\ \E acc \in 0..MaxId : question' = Item(1, 0, acc, FALSE)
  /\ \E anss \in SeqsUpTo(AnswerItems, MaxAnswers) : answers' = anss
  /\ op' = "_find_accepted_answer" /\ outcome' = "running" /\ pc' = "find_accepted"
  /\ UNCHANGED <<error, searchVars, fetchVars, values, served, endpoint, reqVars, data,
                 trace, ret>>
  /\ UNCHANGED min_request_delay

FindAcceptedAnswerReturn ==
  /\ op = "_find_accepted_answer" /\ pc = "find_accepted"
  /\ ret' = find_accepted_answer(question, answers)
  /\ outcome' = "returned" /\ pc' = "done"
  /\ UNCHANGED <<op, error, searchVars, fetchVars, helperVars, served, endpoint, reqVars,
                 data, trace>>
  /\ UNCHANGED min_request_delay

Next ==
  \/ CallDedupe \/ DedupeReturn \/ CallChunks \/ ChunksYield
  \/ CallFindAcceptedAnswer \/ FindAcceptedAnswerReturn
  \/ CallSearch \/ SearchNextPage \/ SearchPage \/ SearchReturn
  \/ CallFetchQuestions \/ FetchQuestionsNextBatch \/ FetchQuestionsItems
  \/ CallFetchAnswers \/ FetchAnswersNextBatch \/ FetchAnswersRequest \/ FetchAnswersItems
  \/ CallGetQuestions
  \/ CallRequest \/ RequestDone
  \/ RequestBegin \/ HttpGet \/ RaiseIfApiError \/ SleepIfBackoffRequested
  \/ PrintQuotaAndReturn \/ Except \/ ReturnEmptyDict

Spec == Init /\ [][Next]_vars

\* The steps of a running call (everything but the calls themselves).  The program
\* is sequential and blocking: a sleep ends, and session.get ends within
\* DEFAULT_TIMEOUT_SEC, so a call that can take a step takes it.
Step ==
  \/ RequestDone
  \/ RequestBegin \/ HttpGet \/ RaiseIfApiError \/ SleepIfBackoffRequested
  \/ PrintQuotaAndReturn \/ Except \/ ReturnEmptyDict
  \/ SearchNextPage \/ SearchPage \/ SearchReturn
  \/ FetchQuestionsNextBatch \/ FetchQuestionsItems
  \/ FetchAnswersNextBatch \/ FetchAnswersRequest \/ FetchAnswersItems
  \/ DedupeReturn \/ ChunksYield \/ FindAcceptedAnswerReturn

FairSpec == Spec /\ WF_vars(Step)

\* ======================================================= properties
Range(f) == {f[k] : k \in DOMAIN f}
GetIndexes == {k \in 1..Len(trace) : trace[k].ev = "get"}
\* the last HTTP attempt of the call failed below the API level
TransportFailed == resp.kind \in {"transport", "malformed"}
Throttled == resp.kind = "json" /\ resp.has_error_name /\ resp.error_name = "throttle_violation"
OtherApiError == resp.kind = "json" /\ resp.has_error_name /\ resp.error_name # "throttle_violation"
Succeeded == resp.kind = "json" /\ ~resp.has_error_name
\* every GET of the call was answered with an error-free payload
NoGetFailed == Cardinality(GetIndexes) = Len(served)

\* C1: once _request is over, a last attempt that failed with a transport error or
\* a malformed response was attempt MAX_RETRIES and its failure reached the caller
\* (an earlier failure is followed by another attempt); and a later attempt that
\* succeeded made _request return that attempt's parsed response.
C1_TransportFailureRetriedUpToCap ==
  /\ (pc \in {"req_returned", "done"} /\ TransportFailed)
       => (attempt = MAX_RETRIES /\ outcome = "raised" /\ error = exc)
  /\ (pc \in {"req_returned", "done"} /\ Succeeded /\ attempt > 1)
       => (outcome # "raised" /\ data = Payload(resp))

\* C2: a throttle_violation on attempt k is followed by a sleep of 10*k seconds,
\* and _request is over after it only if k = MAX_RETRIES, and then by raising.
C2_ThrottleSleepsThenRetriesOrRaises ==
  /\ (Throttled /\ pc # "req_api_error")
       => \E k \in 1..Len(trace) :
            /\ trace[k] = SleepEv("throttle", 10 * attempt * 1000)
            /\ k > 1 /\ trace[k - 1] = GetEv(endpoint, attempt, page)
  /\ (Throttled /\ pc \in {"req_returned", "done"})
       => (attempt = MAX_RETRIES /\ outcome = "raised")

\* C3: a payload with an error_name other than throttle_violation makes _request
\* raise on that attempt: the GET that received it is the last thing the call did
\* (no sleep after it, no further GET), whatever the attempt number.
C3_OtherApiErrorRaisesAtOnce ==
  (OtherApiError /\ pc # "req_api_error")
    => /\ outcome = "raised" /\ pc = "done"
       /\ trace # <<>> /\ trace[Len(trace)] = GetEv(endpoint, attempt, page)

C3_Witness ==
  /\ op = "_request" /\ OtherApiError
  /\ outcome = "raised" /\ attempt = 1
  /\ Cardinality(GetIndexes) = 1

\* C4: every normal return of _request hands back the parsed payload of an attempt
\* that succeeded and carried no error_name.
C4_ReturnsOnlyASuccessfulPayload ==
  pc = "req_returned" => (Succeeded /\ data = Payload(resp))

\* ------------------------------------------------------------------------
RECURSIVE Concat(_)
Concat(ss) == IF ss = <<>> THEN <<>> ELSE Head(ss) \o Concat(Tail(ss))

NoDuplicates(f) == \A a, b \in DOMAIN f : f[a] = f[b] => a = b
FirstIndex(f, x) == CHOOSE k \in DOMAIN f : f[k] = x /\ \A h \in DOMAIN f : f[h] = x => k <= h
\* the items of every error-free payload served for a path, in the order served
ServedItems(path) ==
  Concat([k \in 1..Len(served) |-> IF served[k].path = path THEN served[k].items ELSE <<>>])
ServedQuestionIds ==
  LET its == ServedItems(SEARCH_ADVANCED_ENDPOINT)
      with == {k \in 1..Len(its) : its[k].question_id # 0}
  IN [k \in with |-> its[k].question_id]

\* C5: when _fetch_answers_for_questions returns, every chunk of at most
\* MAX_IDS_PER_REQUEST IDs of its input was requested from the answers endpoint, and
\* every answer served for any chunk is in the returned mapping under its question.
C5_AnswersOfEveryChunkMerged ==
  (op = "_fetch_answers_for_questions" /\ outcome = "returned")
    => /\ \A c \in Range(chunks(question_ids, MAX_IDS_PER_REQUEST)) :
            \E k \in GetIndexes :
              /\ trace[k].what = ANSWERS_FOR_QUESTIONS_ENDPOINT
              /\ trace[k].first = c[1] /\ trace[k].cnt = Len(c)
       /\ \A a \in Range(ServedItems(ANSWERS_FOR_QUESTIONS_ENDPOINT)) :
            /\ a.question_id \in DOMAIN answers_by_qid
            /\ a \in Range(answers_by_qid[a.question_id])

\* C6: a get_questions call none of whose requests failed returns, and its result
\* holds a QA pair for a fetched question exactly when the question declares an
\* accepted_answer_id and the answer with that ID was fetched for that question.
C6_PairIffAcceptedAnswerFetched ==
  (op = "get_questions" /\ pc = "done" /\ NoGetFailed)
    => /\ outcome = "returned"
       /\ \A q \in Range(ServedItems(QUESTIONS_BY_IDS_ENDPOINT)) :
            (\E p \in Range(ret) : p.question_id = q.question_id)
              <=> /\ q.accepted_answer_id # 0
                  /\ \E a \in Range(ServedItems(ANSWERS_FOR_QUESTIONS_ENDPOINT)) :
                       /\ a.question_id = q.question_id
                       /\ a.answer_id = q.accepted_answer_id

\* C7: a _search_question_ids call none of whose page requests failed returns a
\* sequence without duplicates that holds exactly the question IDs of the pages
\* read, ordered by first occurrence across the pages.
C7_SearchIdsDedupedInFirstSeenOrder ==
  (op = "_search_question_ids" /\ pc = "done" /\ NoGetFailed)
    => /\ outcome = "returned"
       /\ NoDuplicates(ret)
       /\ Range(ret) = Range(ServedQuestionIds)
       /\ \A a, b \in DOMAIN ret :
            a < b => FirstIndex(ServedQuestionIds, ret[a]) < FirstIndex(ServedQuestionIds, ret[b])

\* C8: for a question that declares an accepted_answer_id, _find_accepted_answer
\* returns an answer of the list flagged is_accepted whenever the list holds one,
\* wherever it stands; it returns the (first) answer whose answer_id is the declared
\* one only when no answer of the list is flagged.
C8_FlaggedAnswerBeforeIdMatch ==
  (op = "_find_accepted_answer" /\ outcome = "returned" /\ question.accepted_answer_id # 0)
    => /\ (\E a \in Range(answers) : a.is_accepted)
            => (ret # <<>> /\ ret[1] \in Range(answers) /\ ret[1].is_accepted)
       /\ (ret # <<>> /\ ~ret[1].is_accepted)
            => /\ \A a \in Range(answers) : ~a.is_accepted
               /\ ret[1] \in Range(answers)
               /\ ret[1].answer_id = question.accepted_answer_id
       /\ ((\A a \in Range(answers) : ~a.is_accepted)
             /\ (\E a \in Range(answers) : a.answer_id = question.accepted_answer_id))
            => (ret # <<>> /\ ret[1].answer_id = question.accepted_answer_id)

C8_Witness ==
  /\ op = "_find_accepted_answer" /\ outcome = "returned"
  /\ question.accepted_answer_id # 0
  /\ Len(answers) >= 2
  /\ ~answers[1].is_accepted /\ answers[1].answer_id = question.accepted_answer_id
  /\ \E k \in 2..Len(answers) :
       answers[k].is_accepted /\ answers[k].answer_id # question.accepted_answer_id
  /\ ret # <<>> /\ ret[1].is_accepted

\* C9: _find_accepted_answer returns None for a question without accepted_answer_id,
\* even when an answer of the list is flagged accepted, and returns None when the
\* question declares one but no answer is flagged or carries that ID; it never raises.
C9_NoneWithoutDeclaredOrMatchingAnswer ==
  (op = "_find_accepted_answer" /\ pc = "done")
    => /\ outcome = "returned"
       /\ question.accepted_answer_id = 0 => ret = <<>>
       /\ (\A a \in Range(answers) :
             ~a.is_accepted /\ a.answer_id # question.accepted_answer_id) => ret = <<>>

C9_Witness ==
  /\ op = "_find_accepted_answer" /\ outcome = "returned"
  /\ question.accepted_answer_id = 0
  /\ \E a \in Range(answers) : a.is_accepted
  /\ ret = <<>>

\* C10: the chunks _chunks yields with size MAX_IDS_PER_REQUEST are never empty and
\* never longer than 100, and concatenated in the order yielded they are the input
\* list read so far - the whole list once the generator is exhausted; every batch
\* _fetch_questions_by_ids puts into a URL is such a chunk.
C10_ChunksPartitionTheInput ==
  /\ op = "_chunks"
       => /\ \A k \in 1..Len(ret) : Len(ret[k]) >= 1 /\ Len(ret[k]) <= MAX_IDS_PER_REQUEST
          /\ Concat(ret) = SubSeq(values, 1, Min(i, Len(values)))
          /\ outcome = "returned" => Concat(ret) = values
  /\ (op = "_fetch_questions_by_ids" /\ endpoint # Unbound)
       => /\ Len(endpoint.ids) >= 1 /\ Len(endpoint.ids) <= MAX_IDS_PER_REQUEST
          /\ endpoint.ids = SubSeq(question_ids, i - MAX_IDS_PER_REQUEST + 1,
                                   Min(i, Len(question_ids)))

C10_Witness ==
  /\ op = "_chunks" /\ outcome = "returned"
  /\ Len(values) > 2 * MAX_IDS_PER_REQUEST
  /\ Len(ret) = 3 /\ Len(ret[3]) < MAX_IDS_PER_REQUEST
  /\ \E a, b \in DOMAIN values : a # b /\ values[a] = values[b]

\* _dedupe_preserve_order called on its own: no duplicate, the same IDs, first-seen order
DedupeHelperCorrect ==
  (op = "_dedupe_preserve_order" /\ outcome = "returned")
    => /\ NoDuplicates(ret)
       /\ Range(ret) = Range(values)
       /\ \A a, b \in DOMAIN ret :
            a < b => FirstIndex(values, ret[a]) < FirstIndex(values, ret[b])

\* ------------------------------------------------------------------------
InRequest ==
  pc \in {"req_begin", "req_get", "req_api_error", "req_backoff", "req_quota",
          "req_except", "req_after_try"}
\* params["page"] of the GETs sent to the search endpoint, in the order sent
SearchGetPages ==
  LET idx == {k \in GetIndexes : trace[k].what = SEARCH_ADVANCED_ENDPOINT}
      nth(j) == CHOOSE k \in idx : Cardinality({h \in idx : h <= k}) = j
  IN [j \in 1..Cardinality(idx) |-> trace[nth(j)].arg]

\* C11: the search requests of _search_question_ids are for pages 1, 2, ... in
\* increasing order, one request each, none skipped or repeated and none above
\* max_pages; a page beyond the first is requested only when the page before it
\* came back with has_more true, so nothing is requested after a page whose
\* has_more is false or absent.
C11_PagesInOrderUntilNoMore ==
  op = "_search_question_ids"
    => /\ SearchGetPages = [j \in 1..Len(SearchGetPages) |-> j]
       /\ Len(SearchGetPages) <= max_pages
       /\ Len(SearchGetPages) \in {page, page - 1}
       /\ (pc = "search_loop" /\ page >= 1) => data.has_more
       /\ (InRequest /\ page > 1) => data.has_more
       /\ (pc \in {"search_return", "done"} /\ outcome # "raised" /\ page >= 1 /\ page < max_pages)
            => ~data.has_more

C11_Witness ==
  /\ op = "_search_question_ids" /\ outcome = "returned"
  /\ max_pages >= 2
  /\ SearchGetPages = <<1>>
  /\ ~data.has_more

\* ------------------------------------------------------------------------
GetsTo(path) == {k \in GetIndexes : trace[k].what = path}

\* C12: a get_questions call none of whose requests failed returns after running
\* its phases in the order search, question fetch, answer fetch: it sends a search
\* request, every question-fetch request comes after the last search request and
\* every answer-fetch request after the last question-fetch request.
C12_SearchThenQuestionsThenAnswers ==
  (op = "get_questions" /\ pc = "done" /\ NoGetFailed)
    => /\ outcome = "returned"
       /\ GetsTo(SEARCH_ADVANCED_ENDPOINT) # {}
       /\ \A s \in GetsTo(SEARCH_ADVANCED_ENDPOINT), q \in GetsTo(QUESTIONS_BY_IDS_ENDPOINT) :
            s < q
       /\ \A q \in GetsTo(QUESTIONS_BY_IDS_ENDPOINT), a \in GetsTo(ANSWERS_FOR_QUESTIONS_ENDPOINT) :
            q < a
       /\ \A s \in GetsTo(SEARCH_ADVANCED_ENDPOINT), a \in GetsTo(ANSWERS_FOR_QUESTIONS_ENDPOINT) :
            s < a

\* C13: a get_questions call none of whose requests failed returns the empty
\* sequence without any question-fetch or answer-fetch request when the search
\* yielded no IDs, and returns the empty sequence without any answer-fetch request
\* when the question fetch yielded no questions.
C13_EmptyPhaseEndsTheCall ==
  (op = "get_questions" /\ pc = "done" /\ NoGetFailed)
    => /\ Range(ServedQuestionIds) = {}
            => /\ outcome = "returned" /\ ret = <<>>
               /\ GetsTo(QUESTIONS_BY_IDS_ENDPOINT) = {}
               /\ GetsTo(ANSWERS_FOR_QUESTIONS_ENDPOINT) = {}
       /\ (Range(ServedQuestionIds) # {} /\ ServedItems(QUESTIONS_BY_IDS_ENDPOINT) = <<>>)
            => /\ outcome = "returned" /\ ret = <<>>
               /\ GetsTo(ANSWERS_FOR_QUESTIONS_ENDPOINT) = {}

\* ------------------------------------------------------------------------
\* C14: every HTTP GET is preceded, after the GET before it (if any), by a sleep of
\* at least the configured minimum inter-request delay.
C14_SleepBeforeEveryGet ==
  \A k \in GetIndexes :
    \E j \in 1..(k - 1) :
      /\ trace[j].ev = "sleep" /\ trace[j].n >= min_request_delay
      /\ \A h \in j..(k - 1) : trace[h].ev # "get"

C14_Witness ==
  /\ min_request_delay = 3000
  /\ op = "_fetch_questions_by_ids" /\ outcome = "returned"
  /\ Cardinality(GetIndexes) = 3
  /\ \A k \in GetIndexes : trace[k - 1] = SleepEv("min_request_delay", 3000)

\* ------------------------------------------------------------------------
\* C15: once _request is past _sleep_if_backoff_requested for an error-free
\* response, the last thing it did is a sleep of the response's backoff value n
\* (seconds) directly after the GET when n is not zero, and the GET itself when
\* the response carries no backoff; it never hands the response to its caller
\* without that sleep, and it sleeps for a backoff on no other occasion.
C15_BackoffSleepAfterSuccess ==
  /\ (Succeeded /\ pc \notin {"req_api_error", "req_backoff"})
       => /\ Len(trace) >= 2
          /\ IF resp.backoff # 0
               THEN /\ trace[Len(trace)] = SleepEv("backoff", resp.backoff * 1000)
                    /\ trace[Len(trace) - 1] = GetEv(endpoint, attempt, page)
               ELSE trace[Len(trace)] = GetEv(endpoint, attempt, page)
  /\ \A k \in 1..Len(trace) :
       trace[k].what = "backoff" => (k > 1 /\ trace[k - 1].ev = "get")

C15_Witness ==
  /\ op = "_request" /\ Succeeded /\ resp.backoff = 1
  /\ pc = "req_quota"
  /\ trace[Len(trace)] = SleepEv("backoff", 1000)

\* ------------------------------------------------------------------------
\* the GETs of the _request call in progress (or of the last one): those after the
\* last time.sleep(self.min_request_delay_sec)
RequestGets ==
  LET begins == {k \in 1..Len(trace) : trace[k].what = "min_request_delay"}
  IN {g \in GetIndexes : \A b \in begins : b < g}

\* C16: every _request call ends, by returning to its caller or by raising, and
\* it sends at most MAX_RETRIES GETs, whatever the server answers.
C16_RequestTerminatesWithinMaxRetries ==
  /\ [](Cardinality(RequestGets) <= MAX_RETRIES /\ attempt <= MAX_RETRIES)
  /\ (pc = "req_begin") ~> (pc \in {"req_returned", "done"})

C16_Witness ==
  /\ op = "_request" /\ pc = "done"
  /\ outcome = "returned"
  /\ resp.kind = "malformed"
  /\ Cardinality(RequestGets) = 1

====
